---- MODULE Spec2Model ----
(***************************************************************************)
(* FileVault backend: the Express routes of src/routes/uploads.js behind   *)
(* authMiddleware, the Firestore 'files' collection and the S3 bucket.     *)
(* Every await of a handler is a step boundary, so handlers of different   *)
(* requests interleave exactly where the event loop can interleave them.   *)
(*                                                                         *)
(* Strings the code takes apart are sequences: an Authorization header is  *)
(* the sequence of its space separated words, a file name is its sequence  *)
(* of characters, an object key is the sequence of its '/' separated       *)
(* segments.  A missing body field and an empty one are both falsy in the  *)
(* code (`!x`), and both are the empty value here.                         *)
(***************************************************************************)
EXTENDS Naturals, Sequences, FiniteSets, Bags, TLC

-----------------------------------------------------------------------------
(* Bounds of the model *)

MaxRequests == 3   \* requests received by the process

-----------------------------------------------------------------------------
(* Values *)

Uids == {"U1", "U2"}

S3_BUCKET == "bucket"

\* Authorization headers the provider will not vouch for: absent, another
\* scheme, Bearer with an expired token.
BadHeaders == { <<>>, <<"Basic", "abc">>, <<"Bearer", "expired">> }

\* Bearer with a user's valid token.
GoodHeaders == { <<"Bearer", "tokU1">>, <<"Bearer", "tokU2">> }

\* "a/b\r p": directories with both separators and a character to replace.
FileNames == { <<"a", "/", "b", "\\", "r", " ", "p">> }

FileTypes == {"application/pdf"}

OriginalNames == {"r p"}

Kinds == {"upload-url", "files", "list-files", "download-url", "delete"}

-----------------------------------------------------------------------------
(* Pure functions *)

\* [^a-zA-Z0-9.\-_] is every character outside this set (the alphabet of FileNames).
AllowedChars == {"a", "b", "r", "p", ".", "-", "_"}

RECURSIVE LastIndexOf(_, _, _)
\* The greatest i <= n with s[i] = c, 0 if there is none.
LastIndexOf(s, c, n) ==
    IF n = 0 THEN 0
    ELSE IF s[n] = c THEN n
    ELSE LastIndexOf(s, c, n - 1)

\* s.split(sep).pop()
SplitPop(s, sep) == SubSeq(s, LastIndexOf(s, sep, Len(s)) + 1, Len(s))

sanitizeFileName(name) ==
    LET onlyName == SplitPop(SplitPop(name, "/"), "\\")
    IN  [i \in 1..Len(onlyName) |->
            IF onlyName[i] \in AllowedChars THEN onlyName[i] ELSE "_"]

\* sha256(uid) in hex, first 32 characters.
getUserStorageId(uid) ==
    IF uid = "U1" THEN "316ca0efda6296d8f2c11d1e20890d22"
    ELSE "325a90f389d8331f6ccd8da8b1484442"

\* `${userStorageId}/${uuidv4()}-${cleanName}`: two segments, as cleanName has no '/'.
MakeObjectKey(userStorageId, token, cleanName) ==
    << <<userStorageId>>, <<token, "-">> \o cleanName >>

\* uuidv4(): the n-th token generated, different from every other one.
uuidv4(n) == "uuid" \o ToString(n)

\* key.startsWith(prefix + '/')
UnderPrefix(key, prefix) == Len(key) >= 2 /\ key[1] = <<prefix>>

\* authHeader.startsWith('Bearer ') ? authHeader.slice('Bearer '.length) : null
BearerToken(hdr) ==
    IF Len(hdr) >= 2 /\ hdr[1] = "Bearer" THEN hdr[2] ELSE ""

\* The identity provider: the uid of a token it accepts, "" for one it rejects.
verifyIdToken(token) ==
    IF token = "tokU1" THEN "U1"
    ELSE IF token = "tokU2" THEN "U2"
    ELSE ""

-----------------------------------------------------------------------------
(* State *)

VARIABLES
    pool,      \* the bag of the requests being handled, each at an await
    files,     \* the 'files' collection: a set of documents
    objects,   \* keys of the objects in the bucket
    issued,    \* the upload URLs handed out: key -> uid it was returned to
    nextId,    \* number of documents created so far
    nextTok,   \* number of uuidv4 tokens generated so far
    received,  \* number of requests received so far
    resp       \* the response sent by the last step, NoResp if it sent none

vars == <<pool, files, objects, issued, nextId, nextTok, received, resp>>

NoKey == <<>>

NoBody ==
    [fileName |-> <<>>, fileType |-> "", objectKey |-> NoKey,
     originalName |-> "", mimeType |-> "", size |-> 0, id |-> 0]

\* A request as it arrives; key and id are the locals objectKey and docRef.
NewRequest(kind, hdr, body) ==
    [kind |-> kind, hdr |-> hdr, body |-> body, pc |-> "auth",
     uid |-> "", key |-> NoKey, id |-> 0, calls |-> <<>>]

NoOut == [objectKey |-> NoKey, files |-> <<>>, url |-> ""]

NoResp ==
    [kind |-> "none", hdr |-> <<>>, body |-> NoBody, uid |-> "", at |-> "",
     status |-> 0, calls |-> <<>>, out |-> NoOut]

\* The keys a client can put in a body: the ones that were handed out.
KnownKeys == DOMAIN issued

\* The bodies a client sends: complete ones, and ones with a required field left out.
Bodies(kind) ==
    CASE kind = "upload-url" ->
            LET full == { [NoBody EXCEPT !.fileName = n, !.fileType = t] :
                            n \in FileNames, t \in FileTypes }
            IN  full \cup { [b EXCEPT !.fileName = <<>>] : b \in full }
                     \cup { [b EXCEPT !.fileType = ""] : b \in full }
      [] kind = "files" ->
            LET full == { [NoBody EXCEPT !.objectKey = k, !.originalName = o,
                                         !.mimeType = m] :
                            k \in KnownKeys, o \in OriginalNames, m \in FileTypes }
            IN  full \cup { [NoBody EXCEPT !.originalName = o, !.mimeType = m] :
                               o \in OriginalNames, m \in FileTypes }
                     \cup { [b EXCEPT !.originalName = ""] : b \in full }
                     \cup { [b EXCEPT !.mimeType = ""] : b \in full }
      [] kind = "list-files" -> {NoBody}
      [] kind = "download-url" ->
            { [NoBody EXCEPT !.objectKey = k] : k \in KnownKeys \cup {NoKey} }
      [] kind = "delete" ->
            { [NoBody EXCEPT !.id = i] : i \in 1..(nextId + 1) }

-----------------------------------------------------------------------------
(* The metadata store *)

\* FieldValue.serverTimestamp(), in whole seconds, of the n-th document
\* written: the store's clock, which here ticks with every second write, so
\* that documents are written both within a second and seconds apart.
serverTimestamp(n) == n \div 2

RECURSIVE DocsById(_, _)
\* The documents of S with id >= i, by ascending id: the order of a query
\* without orderBy.
DocsById(S, i) ==
    IF S = {} THEN <<>>
    ELSE IF \E d \in S : d.id = i
         THEN LET d == CHOOSE d \in S : d.id = i
              IN  <<d>> \o DocsById(S \ {d}, i + 1)
         ELSE DocsById(S, i + 1)

\* The query without its where clause.
QueryByUid_NoFilter(uid) == DocsById(files, 1)

\* db.collection('files').where('uid', '==', uid).get()
QueryByUid(uid) == DocsById({d \in files : d.uid = uid}, 1)

\* The lookup by objectKey alone, without where('uid', '==', uid).
QueryByUidAndKey_AnyOwner(uid, objectKey) ==
    LET docs == DocsById({d \in files : d.objectKey = objectKey}, 1)
    IN  IF docs = <<>> THEN <<>> ELSE <<docs[1]>>

\* ...where('uid', '==', uid).where('objectKey', '==', objectKey).limit(1).get()
QueryByUidAndKey(uid, objectKey) ==
    LET docs == DocsById({d \in files : d.uid = uid /\ d.objectKey = objectKey}, 1)
    IN  IF docs = <<>> THEN <<>> ELSE <<docs[1]>>

\* docRef.get(): the snapshot, empty if the document does not exist.
GetDoc(id) == DocsById({d \in files : d.id = id}, 1)

RECURSIVE InsertDesc(_, _)
\* x put into a sequence sorted by descending createdAt, after its equals.
InsertDesc(sorted, x) ==
    IF sorted = <<>> THEN <<x>>
    ELSE IF sorted[1].createdAt >= x.createdAt
         THEN <<sorted[1]>> \o InsertDesc(Tail(sorted), x)
         ELSE <<x>> \o sorted

RECURSIVE SortNewestFirst(_)
\* files.sort((a, b) => bSec - aSec): stable, newest first.
SortNewestFirst(docs) ==
    IF docs = <<>> THEN <<>>
    ELSE InsertDesc(SortNewestFirst(SubSeq(docs, 1, Len(docs) - 1)),
                    docs[Len(docs)])

-----------------------------------------------------------------------------
(* Requests *)
(* A request is taken through authMiddleware and the synchronous start of  *)
(* its route handler in the step in which it arrives: up to there the code *)
(* reads and writes nothing shared (the token, the body, a fresh uuid), so *)
(* the await of verifyIdToken commutes with every step of other requests.  *)
(* From the handler's first await of a store on, each await is a step.     *)

Handling == BagToSet(pool)

\* The response to request r, sent at position `at` of the code.
Reply(r, at, calls, status, out) ==
    [kind |-> r.kind, hdr |-> r.hdr, body |-> r.body, uid |-> r.uid, at |-> at,
     status |-> status, calls |-> calls, out |-> out]

\* res.status(status).json(out) of request r: its handler is over.
Respond(r, calls, status, out) ==
    /\ pool' = pool (-) SetToBag({r})
    /\ resp' = Reply(r, r.pc, calls, status, out)

\* The handler of r goes on to its next await, as r2.
Continue(r, r2) ==
    /\ pool' = (pool (-) SetToBag({r})) (+) SetToBag({r2})
    /\ resp' = NoResp

\* An external call of the handler of r throws: its catch block answers.
Throw(r, call, status) ==
    Respond(r, r.calls \o <<call, "throw">>, status, NoOut)

\* A response sent before the handler's first await.
Answer(r, at, status) ==
    /\ resp' = Reply(r, at, <<>>, status, NoOut)
    /\ pool' = pool

\* The handler of the arriving request r reaches its first await.
Start(r) ==
    /\ pool' = pool (+) SetToBag({r})
    /\ resp' = NoResp

\* The check of /files without `!originalName`.
MissingField_NameUnchecked(kind, body) ==
    CASE kind = "upload-url" -> body.fileName = <<>> \/ body.fileType = ""
      [] kind = "files" -> body.objectKey = NoKey \/ body.mimeType = ""
      [] kind = "download-url" -> body.objectKey = NoKey
      [] kind = "delete" -> body.id = 0
      [] OTHER -> FALSE

\* The 400 checks: !fileName || !fileType, !objectKey || !originalName ||
\* !mimeType, !objectKey, !fileId.
MissingField(kind, body) ==
    CASE kind = "upload-url" -> body.fileName = <<>> \/ body.fileType = ""
      [] kind = "files" ->
            body.objectKey = NoKey \/ body.originalName = "" \/ body.mimeType = ""
      [] kind = "download-url" -> body.objectKey = NoKey
      [] kind = "delete" -> body.id = 0
      [] OTHER -> FALSE

\* The synchronous start of the route handler, up to its first await.
EnterHandler(r) ==
    CASE r.kind = "upload-url" ->
            IF MissingField(r.kind, r.body)
            THEN /\ Answer(r, "validate", 400)
                 /\ UNCHANGED nextTok
            ELSE /\ nextTok' = nextTok + 1
                 /\ Start([r EXCEPT !.pc = "signPut",
                        !.key = MakeObjectKey(getUserStorageId(r.uid),
                                              uuidv4(nextTok + 1),
                                              sanitizeFileName(r.body.fileName))])
      [] r.kind = "files" ->
            /\ IF MissingField(r.kind, r.body)
               THEN Answer(r, "validate", 400)
               ELSE Start([r EXCEPT !.pc = "add"])
            /\ UNCHANGED nextTok
      [] r.kind = "list-files" ->
            /\ Start([r EXCEPT !.pc = "query"])
            /\ UNCHANGED nextTok
      [] r.kind = "download-url" ->
            /\ IF MissingField(r.kind, r.body)
               THEN Answer(r, "validate", 400)
               ELSE Start([r EXCEPT !.pc = "lookup"])
            /\ UNCHANGED nextTok
      [] r.kind = "delete" ->
            /\ IF MissingField(r.kind, r.body)
               THEN Answer(r, "validate", 400)
               ELSE Start([r EXCEPT !.pc = "get", !.id = r.body.id])
            /\ UNCHANGED nextTok

\* authMiddleware whose catch block calls next() instead of answering 401.
authMiddleware_NextOnReject(r) ==
    LET token == BearerToken(r.hdr)
        uid == verifyIdToken(token)
    IN  IF token = ""
        THEN Answer(r, "auth", 401) /\ UNCHANGED nextTok
        ELSE EnterHandler([r EXCEPT !.uid = uid])

\* authMiddleware: 401 without a bearer token, 401 when verifyIdToken throws,
\* else req.user = {uid} and next().
authMiddleware(r) ==
    LET token == BearerToken(r.hdr)
        uid == verifyIdToken(token)
    IN  IF token = ""
        THEN Answer(r, "auth", 401) /\ UNCHANGED nextTok
        ELSE IF uid = ""
        THEN Answer(r, "verify", 401) /\ UNCHANGED nextTok
        ELSE EnterHandler([r EXCEPT !.uid = uid])

\* A request arrives and runs up to its handler's first await.
Receive(kind, hdr, body) ==
    /\ received < MaxRequests
    /\ received' = received + 1
    /\ authMiddleware(NewRequest(kind, hdr, body))
    /\ UNCHANGED <<files, objects, issued, nextId>>

\* await getSignedUrl(s3, PutObjectCommand, ...) settles; the URL goes to the caller.
SignPut(r) ==
    /\ r.pc = "signPut"
    /\ \/ /\ Respond(r, r.calls \o <<"s3.signPut">>, 200,
                     [NoOut EXCEPT !.objectKey = r.key, !.url = "put"])
          /\ issued' = issued @@ (r.key :> r.uid)
       \/ /\ Throw(r, "s3.signPut", 500)
          /\ UNCHANGED issued
    /\ UNCHANGED <<files, objects, nextId, nextTok, received>>

\* The holder of a pre-signed PUT URL uploads to its key.
ClientUpload(k) ==
    /\ k \in DOMAIN issued
    /\ k \notin objects
    /\ objects' = objects \cup {k}
    /\ resp' = NoResp
    /\ UNCHANGED <<pool, files, issued, nextId, nextTok, received>>

\* await db.collection('files').add({...}) settles.
AddRecord(r) ==
    /\ r.pc = "add"
    /\ \/ LET doc == [id |-> nextId + 1,
                     uid |-> r.uid,
                     userStorageId |-> getUserStorageId(r.uid),
                     bucket |-> S3_BUCKET,
                     objectKey |-> r.body.objectKey,
                     originalName |-> r.body.originalName,
                     mimeType |-> r.body.mimeType,
                     size |-> r.body.size,
                     createdAt |-> serverTimestamp(nextId + 1)]
          IN  /\ files' = files \cup {doc}
              /\ nextId' = nextId + 1
              /\ Continue(r, [r EXCEPT !.pc = "readBack", !.id = nextId + 1,
                                       !.calls = r.calls \o <<"db.add">>])
       \/ /\ Throw(r, "db.add", 500)
          /\ UNCHANGED <<files, nextId>>
    /\ UNCHANGED <<objects, issued, nextTok, received>>

\* await docRef.get() settles; 201 with the stored document.
ReadBack(r) ==
    /\ r.pc = "readBack"
    /\ \/ Respond(r, r.calls \o <<"db.get">>, 201,
                  [NoOut EXCEPT !.files = GetDoc(r.id)])
       \/ Throw(r, "db.get", 500)
    /\ UNCHANGED <<files, objects, issued, nextId, nextTok, received>>

\* await ...where('uid', '==', uid).get() settles; the documents are sorted and sent.
ListFiles(r) ==
    /\ r.pc = "query"
    /\ \/ Respond(r, r.calls \o <<"db.query">>, 200,
                  [NoOut EXCEPT !.files = SortNewestFirst(QueryByUid(r.uid))])
       \/ Throw(r, "db.query", 500)
    /\ UNCHANGED <<files, objects, issued, nextId, nextTok, received>>

\* await ...where(uid).where(objectKey).limit(1).get() settles.
Lookup(r) ==
    /\ r.pc = "lookup"
    /\ \/ LET snapshot == QueryByUidAndKey(r.uid, r.body.objectKey)
              calls == r.calls \o <<"db.query">>
          IN  IF snapshot = <<>>
              THEN Respond(r, calls, 404, NoOut)
              ELSE Continue(r, [r EXCEPT !.pc = "signGet", !.id = snapshot[1].id,
                                         !.calls = calls])
       \/ Throw(r, "db.query", 500)
    /\ UNCHANGED <<files, objects, issued, nextId, nextTok, received>>

\* await getSignedUrl(s3, GetObjectCommand, ...) settles.
SignGet(r) ==
    /\ r.pc = "signGet"
    /\ \/ Respond(r, r.calls \o <<"s3.signGet">>, 200,
                  [NoOut EXCEPT !.objectKey = r.body.objectKey, !.url = "get"])
       \/ Throw(r, "s3.signGet", 500)
    /\ UNCHANGED <<files, objects, issued, nextId, nextTok, received>>

\* The ownership check left out.
NotOwner_Never(data, uid) == FALSE

\* data.uid !== uid
NotOwner(data, uid) == data.uid # uid

\* The handler that goes from its checks straight to docRef.delete().
GetForDelete_SkipS3(r) ==
    /\ r.pc = "get"
    /\ \/ LET snapshot == GetDoc(r.id)
              calls == r.calls \o <<"db.get">>
          IN  IF snapshot = <<>>
              THEN Respond(r, calls, 404, NoOut)
              ELSE IF NotOwner(snapshot[1], r.uid)
              THEN Respond(r, calls, 403, NoOut)
              ELSE IF snapshot[1].objectKey = NoKey
              THEN Respond(r, calls, 500, NoOut)
              ELSE Continue(r, [r EXCEPT !.pc = "dbdel", !.key = snapshot[1].objectKey,
                                         !.calls = calls])
       \/ Throw(r, "db.get", 500)
    /\ UNCHANGED <<files, objects, issued, nextId, nextTok, received>>

\* DELETE /files/:id: await docRef.get() settles, then the checks up to s3.send.
GetForDelete(r) ==
    /\ r.pc = "get"
    /\ \/ LET snapshot == GetDoc(r.id)
              calls == r.calls \o <<"db.get">>
          IN  IF snapshot = <<>>
              THEN Respond(r, calls, 404, NoOut)
              ELSE IF NotOwner(snapshot[1], r.uid)
              THEN Respond(r, calls, 403, NoOut)
              ELSE IF snapshot[1].objectKey = NoKey
              THEN Respond(r, calls, 500, NoOut)
              ELSE Continue(r, [r EXCEPT !.pc = "s3del", !.key = snapshot[1].objectKey,
                                         !.calls = calls])
       \/ Throw(r, "db.get", 500)
    /\ UNCHANGED <<files, objects, issued, nextId, nextTok, received>>

\* s3.send whose failure is swallowed: the handler goes on to docRef.delete().
DeleteObject_Swallow(r) ==
    /\ r.pc = "s3del"
    /\ \/ /\ objects' = objects \ {r.key}
          /\ Continue(r, [r EXCEPT !.pc = "dbdel",
                                   !.calls = r.calls \o <<"s3.delete">>])
       \/ /\ Continue(r, [r EXCEPT !.pc = "dbdel",
                                   !.calls = r.calls \o <<"s3.delete", "throw">>])
          /\ UNCHANGED objects
    /\ UNCHANGED <<files, issued, nextId, nextTok, received>>

\* await s3.send(DeleteObjectCommand) settles.
DeleteObject(r) ==
    /\ r.pc = "s3del"
    /\ \/ /\ objects' = objects \ {r.key}
          /\ Continue(r, [r EXCEPT !.pc = "dbdel",
                                         !.calls = r.calls \o <<"s3.delete">>])
       \/ /\ Throw(r, "s3.delete", 500)
          /\ UNCHANGED objects
    /\ UNCHANGED <<files, issued, nextId, nextTok, received>>

\* await docRef.delete() settles.
DeleteRecord(r) ==
    /\ r.pc = "dbdel"
    /\ \/ /\ files' = {d \in files : d.id # r.id}
          /\ Respond(r, r.calls \o <<"db.delete">>, 200, NoOut)
       \/ /\ Throw(r, "db.delete", 500)
          /\ UNCHANGED files
    /\ UNCHANGED <<objects, issued, nextId, nextTok, received>>

-----------------------------------------------------------------------------
(* Specification *)

\* The key of the file the stores may hold when the process starts.
SeedKey ==
    MakeObjectKey(getUserStorageId("U1"), uuidv4(1),
                  sanitizeFileName(CHOOSE n \in FileNames : TRUE))

\* The record POST /files made for it.
SeedDoc ==
    [id |-> 1, uid |-> "U1", userStorageId |-> getUserStorageId("U1"),
     bucket |-> S3_BUCKET, objectKey |-> SeedKey,
     originalName |-> CHOOSE o \in OriginalNames : TRUE,
     mimeType |-> CHOOSE m \in FileTypes : TRUE, size |-> 0,
     createdAt |-> serverTimestamp(1)]

\* The process keeps no state of its own: the collection and the bucket
\* outlive it.  It starts on empty stores, or on stores in which U1 has, through
\* these routes, got an upload URL, uploaded the file and registered it.
Init ==
    /\ pool = EmptyBag
    /\ received = 0
    /\ resp = NoResp
    /\ \/ /\ files = {}
          /\ objects = {}
          /\ issued = <<>>
          /\ nextId = 0
          /\ nextTok = 0
       \/ /\ files = {SeedDoc}
          /\ objects = {SeedKey}
          /\ issued = (SeedKey :> "U1")
          /\ nextId = 1
          /\ nextTok = 1

Next ==
    \/ \E kind \in Kinds, hdr \in GoodHeaders :
         \E body \in Bodies(kind) : Receive(kind, hdr, body)
    \/ \E kind \in Kinds, hdr \in BadHeaders : Receive(kind, hdr, NoBody)
    \/ \E r \in Handling : SignPut(r)
    \/ \E k \in DOMAIN issued : ClientUpload(k)
    \/ \E r \in Handling : AddRecord(r)
    \/ \E r \in Handling : ReadBack(r)
    \/ \E r \in Handling : ListFiles(r)
    \/ \E r \in Handling : Lookup(r)
    \/ \E r \in Handling : SignGet(r)
    \/ \E r \in Handling : GetForDelete(r)
    \/ \E r \in Handling : DeleteObject(r)
    \/ \E r \in Handling : DeleteRecord(r)

Spec == Init /\ [][Next]_vars

-----------------------------------------------------------------------------
(* Properties *)

Range(seq) == {seq[i] : i \in 1..Len(seq)}

\* The call was made.
Has(calls, c) == c \in Range(calls)

\* The call was made and did not throw.
CallOk(calls, c) ==
    \E i \in 1..Len(calls) :
        calls[i] = c /\ (i = Len(calls) \/ calls[i + 1] # "throw")

\* The last call made threw.
Threw(calls) == calls # <<>> /\ calls[Len(calls)] = "throw"

\* This step is a step of the handler of r.
Moved(r) == CopiesIn(r, pool') < CopiesIn(r, pool)

\* This step is the last one of the handler of r: it answers.
Answered(r) == Moved(r) /\ BagCardinality(pool') < BagCardinality(pool)

Protected == Kinds

\* The record exists and belongs to B, and B got its key from /upload-url.
OwnedBy(key, B) ==
    /\ key \in DOMAIN issued
    /\ issued[key] = B
    /\ UnderPrefix(key, getUserStorageId(B))
    /\ \E d \in files : d.objectKey = key /\ d.uid = B

-----------------------------------------------------------------------------
\* C1: POST /download-url by user A for an objectKey owned by another user B
\* (issued to B by /upload-url under B's namespace and registered by B) is
\* answered 404 and carries no download URL, whatever requests came before.
C1_ForeignDownloadIs404 ==
    (/\ resp.kind = "download-url"
     /\ resp.uid # ""
     /\ ~Threw(resp.calls)
     /\ \E B \in Uids \ {resp.uid} : OwnedBy(resp.body.objectKey, B))
    => resp.status = 404 /\ resp.out.url = ""

\* C2: DELETE /files/:id by A for an existing record of another user B is
\* answered 403 (500 only if reading the record threw), calls neither the
\* object store's delete nor the metadata store's, and leaves both stores as
\* they were.
C2_ForeignDeleteIs403 ==
    [][\A r \in Handling :
          (/\ Moved(r)
           /\ r.kind = "delete"
           /\ r.pc = "get"
           /\ \E d \in files : d.id = r.body.id /\ d.uid # r.uid)
          => /\ Answered(r)
             /\ resp'.kind = "delete"
             /\ IF Threw(resp'.calls) THEN resp'.status = 500 ELSE resp'.status = 403
             /\ ~Has(resp'.calls, "s3.delete")
             /\ ~Has(resp'.calls, "db.delete")
             /\ files' = files
             /\ objects' = objects]_vars

C2_Witness ==
    /\ resp.kind = "delete"
    /\ resp.status = 403
    /\ \E d \in files :
          d.id = resp.body.id /\ d.uid # resp.uid /\ d.objectKey \in objects

\* C3: in a DELETE /files/:id by the owner the metadata delete is only ever
\* called after the object-store delete returned; when the object-store delete
\* throws, the metadata delete is not called, the answer is 500, and the step
\* leaves the object and the record as they were.
C3_ObjectDeleteFirst ==
    /\ [](/\ \A r \in Handling :
               r.kind = "delete" /\ r.pc = "dbdel"
                  => r.calls = <<"db.get", "s3.delete">>
          /\ (resp.kind = "delete" /\ Has(resp.calls, "db.delete"))
                  => SubSeq(resp.calls, 1, 3) = <<"db.get", "s3.delete", "db.delete">>
          /\ (resp.kind = "delete" /\ ~CallOk(resp.calls, "s3.delete"))
                  => ~Has(resp.calls, "db.delete") /\ resp.status # 200)
    /\ [][\A r \in Handling :
            (Moved(r) /\ r.kind = "delete" /\ r.pc = "s3del")
            => \/ /\ ~Answered(r)
                  /\ objects' = objects \ {r.key}
                  /\ files' = files
               \/ /\ Answered(r)
                  /\ resp'.status = 500
                  /\ resp'.calls = r.calls \o <<"s3.delete", "throw">>
                  /\ files' = files
                  /\ objects' = objects]_vars

C3_Witness ==
    /\ resp.kind = "delete"
    /\ resp.status = 500
    /\ resp.calls = <<"db.get", "s3.delete", "throw">>
    /\ \E d \in files :
          d.id = resp.body.id /\ d.uid = resp.uid /\ d.objectKey \in objects

\* C4 as stated: a delete that removed the object never leaves the metadata
\* record behind; what it can leave is an object without a record.
C4_NoOrphanedMetadata ==
    (resp.kind = "delete" /\ CallOk(resp.calls, "s3.delete"))
    => ~(\E d \in files : d.id = resp.body.id)

\* C4 amended: the delete order avoids orphaned objects.  A record is removed
\* only by the last step of a delete that already removed the object and that
\* answers 200; a delete that fails part-way removes no record, and the only
\* thing a delete removes before its last step is the object: what a failed
\* delete can leave is a metadata record whose object it removed.
C4_NoOrphanedObject ==
    /\ [][files' # files /\ files' \subseteq files
            => /\ resp'.kind = "delete"
               /\ resp'.status = 200
               /\ CallOk(resp'.calls, "s3.delete")
               /\ files \ files' = {d \in files : d.id = resp'.body.id}]_vars
    /\ [][resp'.kind = "delete" /\ resp'.status # 200 => files' = files]_vars
    /\ [][\A r \in Handling :
            (Moved(r) /\ r.kind = "delete")
            => /\ files' \subseteq files
               /\ objects' \subseteq objects
               /\ objects' # objects => files' = files /\ r.pc = "s3del"]_vars

C4_Witness ==
    /\ resp.kind = "delete"
    /\ resp.status = 500
    /\ CallOk(resp.calls, "s3.delete")
    /\ \E d \in files : d.id = resp.body.id /\ d.objectKey \notin objects

\* C5: every record's objectKey lies under the record's userStorageId prefix,
\* and userStorageId is the namespace of the record's owner.
C5_KeyUnderOwnersPrefix ==
    \A d \in files :
        /\ d.userStorageId = getUserStorageId(d.uid)
        /\ UnderPrefix(d.objectKey, d.userStorageId)

\* C6: a request to /upload-url, /files or /download-url that leaves out a
\* required field is answered 400 before any store is called: its handler
\* never reaches an await, and the step changes neither store.
C6_MissingFieldIs400 ==
    /\ [](/\ \A r \in Handling :
               /\ r.kind = "upload-url" => r.body.fileName # <<>> /\ r.body.fileType # ""
               /\ r.kind = "files" => /\ r.body.objectKey # NoKey
                                      /\ r.body.originalName # ""
                                      /\ r.body.mimeType # ""
               /\ r.kind = "download-url" => r.body.objectKey # NoKey
          /\ (/\ resp.uid # ""
              /\ \/ resp.kind = "upload-url"
                       /\ (resp.body.fileName = <<>> \/ resp.body.fileType = "")
                 \/ resp.kind = "files"
                       /\ (\/ resp.body.objectKey = NoKey
                           \/ resp.body.originalName = ""
                           \/ resp.body.mimeType = "")
                 \/ resp.kind = "download-url" /\ resp.body.objectKey = NoKey)
             => resp.status = 400 /\ resp.calls = <<>>)
    /\ [][resp'.status = 400
            => UNCHANGED <<pool, files, objects, issued, nextId, nextTok>>]_vars

C6_Witness ==
    /\ resp.kind = "files"
    /\ resp.status = 400
    /\ resp.body.objectKey # NoKey
    /\ resp.body.originalName = ""
    /\ files # {}

\* C7: on every protected route a request without a bearer token, or with a
\* token the identity provider rejects, is answered 401 from authMiddleware:
\* req.user is never set, the handler is never entered, no store is called and
\* nothing changes.
C7_UnauthenticatedIs401 ==
    /\ [](/\ \A r \in Handling : r.hdr \notin BadHeaders /\ r.uid # ""
          /\ (resp.kind \in Protected /\ resp.hdr \in BadHeaders)
                => /\ resp.status = 401
                   /\ resp.at \in {"auth", "verify"}
                   /\ resp.uid = ""
                   /\ resp.calls = <<>>)
    /\ [][resp'.status = 401
            => UNCHANGED <<pool, files, objects, issued, nextId, nextTok>>]_vars

C7_Witness ==
    /\ resp.kind = "delete"
    /\ resp.status = 401
    /\ resp.hdr = <<"Bearer", "expired">>
    /\ files # {}

\* C8: a 200 answer of GET /list-files to uid U lists, once each, exactly the
\* records stored with uid = U at that moment; a record is no longer stored
\* once a DELETE of it was answered 200.
C8_ListIsOwnRecords ==
    /\ (resp.kind = "list-files" /\ resp.status = 200)
          => /\ Range(resp.out.files) = {d \in files : d.uid = resp.uid}
             /\ Len(resp.out.files) = Cardinality({d \in files : d.uid = resp.uid})
    /\ (resp.kind = "delete" /\ resp.status = 200)
          => ~(\E d \in files : d.id = resp.body.id)

C8_Witness ==
    /\ resp.kind = "list-files"
    /\ resp.status = 200
    /\ resp.out.files # <<>>
    /\ \E d \in files : d.uid # resp.uid

\* C9: an object at a key that /upload-url issued to B is removed from the
\* object store only by a DELETE request of B.
C9_OnlyIssueeDeletesObject ==
    [][\A k \in objects \ objects' :
          k \in DOMAIN issued
          => \E r \in Handling :
                Moved(r) /\ r.kind = "delete" /\ r.uid = issued[k]]_vars

\* C10 as stated: POST /download-url is not answered 200 for a key whose object
\* the handler of an owner's DELETE /files/:id has already removed.
C10_NoDownloadAfterObjectDelete ==
    (resp.kind = "download-url" /\ resp.status = 200)
    => ~(\E r \in Handling :
            /\ r.kind = "delete"
            /\ r.uid = resp.uid
            /\ r.pc = "dbdel"
            /\ r.key = resp.out.objectKey
            /\ r.key \notin objects)

\* C10 amended: POST /download-url goes on to sign a URL exactly when its
\* lookup finds a record with the caller's uid and that objectKey, and answers
\* 404 when it finds none; a 200 comes only from that path.  The object store
\* is not consulted.
C10_DownloadFollowsRecord ==
    /\ [](resp.kind = "download-url" /\ resp.status = 200
            => /\ resp.at = "signGet"
               /\ resp.calls = <<"db.query", "s3.signGet">>
               /\ resp.out.objectKey = resp.body.objectKey)
    /\ [][\A r \in Handling :
            (Moved(r) /\ r.kind = "download-url" /\ r.pc = "lookup")
            => LET found == \E d \in files :
                               d.uid = r.uid /\ d.objectKey = r.body.objectKey
               IN  /\ ~Answered(r) => found
                   /\ Answered(r) => \/ resp'.status = 404 /\ ~found
                                     \/ resp'.status = 500 /\ Threw(resp'.calls)]_vars

C10_Witness ==
    /\ resp.kind = "download-url"
    /\ resp.status = 200
    /\ resp.out.objectKey \notin objects
    /\ \E r \in Handling :
          r.kind = "delete" /\ r.pc = "dbdel" /\ r.key = resp.out.objectKey

====
